---- MODULE Spec2Model ----
(***************************************************************************)
(* Model of src/src/display/window.rs: the Window controller that sits     *)
(* between the native event loop and the script callback.                   *)
(*                                                                         *)
(* State: the cached window attributes (the fields of struct Window), the  *)
(* two channels (the event-loop proxy and the per-view crossbeam sender),  *)
(* the event collector (event::Sieve) and the directive last handed back   *)
(* to the native loop.                                                      *)
(***************************************************************************)
EXTENDS Integers, Sequences, FiniteSets

VARIABLES
  win,          \* the cached attributes of struct Window (window.rs:22-38)
  proxy,        \* EventLoopProxy: "open", or "closed" once the loop is gone
  js_events,    \* Option<Sender<CanvasEvent>>: "None", "Open", "Closed"
  ui_events,    \* event::Sieve, the entries it has accumulated, in order
  control_flow, \* "Poll" while the loop runs, "Exit", or "Panic" (unwound)
  last,         \* the last operation of the window: its name, what the callback
                \* came back with (NoCall: not called) and what was sent
  script,       \* what the callback answers: Whatever (anything it can), or
                \* the one reply it gives on every call
  shown         \* the boolean of the most recent Visible command that went
                \* out on the command channel (FALSE while none has)

vars == <<win, proxy, js_events, ui_events, control_flow, last, script, shown>>

\* Largest number of entries the collector holds at once in the model.
MaxEvents == 2

----------------------------------------------------------------------------
(* Script values.  A number carries n = twice its value, so that halves    *)
(* (1.5, 800.5, -1.5) exist and the `as` casts below are not the identity. *)

JsUndefined == [t |-> "undefined", s |-> "", n |-> 0, b |-> FALSE]
JsString(x) == [t |-> "string", s |-> x, n |-> 0, b |-> FALSE]
JsNumber(h) == [t |-> "number", s |-> "", n |-> h, b |-> FALSE]
JsBoolean(x) == [t |-> "boolean", s |-> "", n |-> 0, b |-> x]
JsBox == [t |-> "box", s |-> "", n |-> 0, b |-> FALSE]

\* `x as u64` / `x as u32` of an f64: truncation toward zero, negatives
\* saturate to 0.
as_u64(h) == IF h <= 0 THEN 0 ELSE h \div 2
as_u32(h) == IF h <= 0 THEN 0 ELSE h \div 2
\* `x as i32` of an f64: truncation toward zero.
as_i32(h) == IF h >= 0 THEN h \div 2 ELSE -((-h) \div 2)

\* f64::round of p / d for an integral scale factor d (half away from zero).
RoundDiv(p, d) == IF p >= 0 THEN (2 * p + d) \div (2 * d)
                  ELSE -((2 * (-p) + d) \div (2 * d))

\* LogicalSize::from_physical / LogicalPosition::from_physical
from_physical(phys, dpr) == <<RoundDiv(phys[1], dpr), RoundDiv(phys[2], dpr)>>

\* utils::to_cursor_icon: Some(icon) for a known name, None otherwise.
to_cursor_icon(name) ==
  CASE name = "default" -> "Default"
    [] name = "crosshair" -> "Crosshair"
    [] OTHER -> "None"

\* utils::to_canvas_fit: Some(mode) for a known name, None otherwise.
to_canvas_fit(name) ==
  CASE name = "contain-y" -> "ContainY"
    [] name = "cover" -> "Cover"
    [] OTHER -> "None"

----------------------------------------------------------------------------
(* Commands (enum CanvasEvent).  One record shape for all of them.         *)

Cmd(c, s, b, x, y) == [c |-> c, s |-> s, b |-> b, x |-> x, y |-> y]
Page == Cmd("Page", "", FALSE, 0, 0)
Title(t) == Cmd("Title", t, FALSE, 0, 0)
Close == Cmd("Close", "", FALSE, 0, 0)
Fullscreen(f) == Cmd("Fullscreen", "", f, 0, 0)
FrameRate(f) == Cmd("FrameRate", "", FALSE, f, 0)
Size(sz) == Cmd("Size", "", FALSE, sz[1], sz[2])
Position(p) == Cmd("Position", "", FALSE, p[1], p[2])
Cursor(i) == Cmd("Cursor", i, FALSE, 0, 0)
Fit(m) == Cmd("Fit", m, FALSE, 0, 0)
Visible(v) == Cmd("Visible", "", v, 0, 0)
Resized(phys) == Cmd("Resized", "", FALSE, phys[1], phys[2])

----------------------------------------------------------------------------
(* The machine a handler runs on: the window, both channels, the collector *)
(* and what the handler has sent so far.  res is "Run" while the handler   *)
(* is still executing, then "Ok", "Err" (EventLoopClosed) or "Panic".      *)

Machine(w, px, js, ui) ==
  [win |-> w, proxy |-> px, js_events |-> js, ui_events |-> ui,
   cmds |-> <<>>, sent |-> <<>>, res |-> "Run"]

\* self.proxy.send_event(cmd)? : Err(EventLoopClosed) leaves the handler.
send_event(st, cmd) ==
  IF st.proxy = "open"
  THEN [st EXCEPT !.cmds = Append(@, cmd)]
  ELSE [st EXCEPT !.res = "Err"]

\* self.proxy.send_event(cmd).ok() : the result is dropped.
send_event_ok(st, cmd) ==
  IF st.proxy = "open" THEN [st EXCEPT !.cmds = Append(@, cmd)] ELSE st

\* if let Some(channel) = &self.js_events { channel.send(msg).unwrap() }
channel_send(st, msg) ==
  CASE st.js_events = "None" -> st
    [] st.js_events = "Open" -> [st EXCEPT !.sent = Append(@, msg)]
    [] OTHER -> [st EXCEPT !.res = "Panic"]

\* event::Sieve::go_fullscreen: one notification entry (its flag is not kept).
go_fullscreen(st, f) == [st EXCEPT !.ui_events = Append(@, "Fullscreen")]

\* event::Sieve::capture: one entry per window event.
capture(st, kind) == [st EXCEPT !.ui_events = Append(@, kind)]

\* vals[i] on a Vec shorter than i+1 panics (index out of bounds).
InBounds(vals, i) == i + 1 <= Len(vals)
Abort(st) == [st EXCEPT !.res = "Panic"]

----------------------------------------------------------------------------
(* Window::handle_feedback, one operator per field group, in source order. *)
(* vals is the reply array as a Vec (position i is vals[i + 1] here).      *)

\* 0: context
context_field(st, vals) ==
  IF ~InBounds(vals, 0) THEN Abort(st)
  ELSE IF vals[1].t = "box" THEN send_event(st, Page) ELSE st

\* The title field as it would be without the comparison with the cache.
title_field_always(st, vals) ==
  IF ~InBounds(vals, 1) THEN Abort(st)
  ELSE IF vals[2].t = "string"
       THEN send_event([st EXCEPT !.win.title = vals[2].s], Title(vals[2].s))
       ELSE st

\* 1: title
title_field(st, vals) ==
  IF ~InBounds(vals, 1) THEN Abort(st)
  ELSE IF vals[2].t = "string" /\ vals[2].s # st.win.title
       THEN send_event([st EXCEPT !.win.title = vals[2].s], Title(vals[2].s))
       ELSE st

\* The keep-running field as it would be with the flag read the other way.
active_field_inverted(st, vals) ==
  IF ~InBounds(vals, 2) THEN Abort(st)
  ELSE IF vals[3].t = "boolean" /\ vals[3].b THEN send_event(st, Close) ELSE st

\* 2: 'keep running' flag
active_field(st, vals) ==
  IF ~InBounds(vals, 2) THEN Abort(st)
  ELSE IF vals[3].t = "boolean" /\ ~vals[3].b THEN send_event(st, Close) ELSE st

\* The fullscreen field as it would be if it went through the proxy like the
\* other fields.
fullscreen_field_by_proxy(st, vals) ==
  IF ~InBounds(vals, 3) THEN Abort(st)
  ELSE IF vals[4].t = "boolean" /\ vals[4].b # st.win.fullscreen
       THEN send_event([st EXCEPT !.win.fullscreen = vals[4].b], Fullscreen(vals[4].b))
       ELSE st

\* The fullscreen field as it would be without the comparison with the cache.
fullscreen_field_unguarded(st, vals) ==
  IF ~InBounds(vals, 3) THEN Abort(st)
  ELSE IF vals[4].t = "boolean"
       THEN LET s1 == [st EXCEPT !.win.fullscreen = vals[4].b]
                s2 == channel_send(s1, Fullscreen(vals[4].b))
            IN IF s2.res = "Run" THEN go_fullscreen(s2, vals[4].b) ELSE s2
       ELSE st

\* 3: fullscreen flag
fullscreen_field(st, vals) ==
  IF ~InBounds(vals, 3) THEN Abort(st)
  ELSE IF vals[4].t = "boolean" /\ vals[4].b # st.win.fullscreen
       THEN LET s1 == [st EXCEPT !.win.fullscreen = vals[4].b]
                s2 == channel_send(s1, Fullscreen(vals[4].b))
            IN IF s2.res = "Run" THEN go_fullscreen(s2, vals[4].b) ELSE s2
       ELSE st

\* The fps field as it would be if the cache were written only after the
\* command went out.
fps_field_send_first(st, vals) ==
  IF ~InBounds(vals, 4) THEN Abort(st)
  ELSE IF vals[5].t = "number" /\ as_u64(vals[5].n) # st.win.fps
       THEN LET s1 == send_event(st, FrameRate(as_u64(vals[5].n)))
            IN IF s1.res = "Run"
               THEN [s1 EXCEPT !.win.fps = as_u64(vals[5].n)]
               ELSE s1
       ELSE st

\* 4: fps (or zero to disable animation)
fps_field(st, vals) ==
  IF ~InBounds(vals, 4) THEN Abort(st)
  ELSE IF vals[5].t = "number" /\ as_u64(vals[5].n) # st.win.fps
       THEN send_event([st EXCEPT !.win.fps = as_u64(vals[5].n)],
                       FrameRate(as_u64(vals[5].n)))
       ELSE st

\* The size field as it would be if a width without a height were an error.
size_field_strict(st, vals) ==
  IF ~InBounds(vals, 5) THEN Abort(st)
  ELSE IF vals[6].t # "number" THEN st
  ELSE IF ~InBounds(vals, 6) THEN Abort(st)
  ELSE IF vals[7].t # "number" THEN [st EXCEPT !.res = "Err"]
  ELSE LET size == <<as_u32(vals[6].n), as_u32(vals[7].n)>>
       IN IF size # st.win.size
          THEN send_event([st EXCEPT !.win.size = size], Size(size))
          ELSE st

\* 5+6: window size
size_field(st, vals) ==
  IF ~InBounds(vals, 5) THEN Abort(st)
  ELSE IF vals[6].t # "number" THEN st
  ELSE IF ~InBounds(vals, 6) THEN Abort(st)
  ELSE IF vals[7].t # "number" THEN st
  ELSE LET size == <<as_u32(vals[6].n), as_u32(vals[7].n)>>
       IN IF size # st.win.size
          THEN send_event([st EXCEPT !.win.size = size], Size(size))
          ELSE st

\* 7+8: window position
position_field(st, vals) ==
  IF ~InBounds(vals, 7) THEN Abort(st)
  ELSE IF vals[8].t # "number" THEN st
  ELSE IF ~InBounds(vals, 8) THEN Abort(st)
  ELSE IF vals[9].t # "number" THEN st
  ELSE LET position == <<as_i32(vals[8].n), as_i32(vals[9].n)>>
       IN IF position # st.win.position
          THEN send_event([st EXCEPT !.win.position = position], Position(position))
          ELSE st

\* The cursor field as it would be without the "none" clause.
cursor_field_no_sentinel(st, vals) ==
  IF ~InBounds(vals, 9) THEN Abort(st)
  ELSE IF vals[10].t # "string" THEN st
  ELSE LET cursor_icon == to_cursor_icon(vals[10].s)
       IN IF cursor_icon # st.win.cursor /\ cursor_icon # "None"
          THEN send_event([st EXCEPT !.win.cursor = cursor_icon], Cursor(cursor_icon))
          ELSE st

\* 9: cursor
cursor_field(st, vals) ==
  IF ~InBounds(vals, 9) THEN Abort(st)
  ELSE IF vals[10].t # "string" THEN st
  ELSE LET cursor_style == vals[10].s
           cursor_icon == to_cursor_icon(cursor_style)
       IN IF (cursor_icon # st.win.cursor /\ cursor_icon # "None")
             \/ cursor_style = "none"
          THEN send_event([st EXCEPT !.win.cursor = cursor_icon], Cursor(cursor_icon))
          ELSE st

\* The fit field as it would be without the is_some() test.
fit_field_no_some(st, vals) ==
  IF ~InBounds(vals, 10) THEN Abort(st)
  ELSE IF vals[11].t # "string" THEN st
  ELSE LET fit_style == vals[11].s
           fit_mode == to_canvas_fit(fit_style)
       IN IF fit_mode # st.win.fit \/ fit_style = "none"
          THEN send_event([st EXCEPT !.win.fit = fit_mode], Fit(fit_mode))
          ELSE st

\* 10: fit
fit_field(st, vals) ==
  IF ~InBounds(vals, 10) THEN Abort(st)
  ELSE IF vals[11].t # "string" THEN st
  ELSE LET fit_style == vals[11].s
           fit_mode == to_canvas_fit(fit_style)
       IN IF (fit_mode # st.win.fit /\ fit_mode # "None") \/ fit_style = "none"
          THEN send_event([st EXCEPT !.win.fit = fit_mode], Fit(fit_mode))
          ELSE st

\* The visible field as it would be if it sent without writing the cache.
visible_field_uncached(st, vals) ==
  IF ~InBounds(vals, 11) THEN Abort(st)
  ELSE IF vals[12].t = "boolean" /\ vals[12].b # st.win.visible
       THEN send_event(st, Visible(vals[12].b))
       ELSE st

\* 11: visible flag
visible_field(st, vals) ==
  IF ~InBounds(vals, 11) THEN Abort(st)
  ELSE IF vals[12].t = "boolean" /\ vals[12].b # st.win.visible
       THEN send_event([st EXCEPT !.win.visible = vals[12].b], Visible(vals[12].b))
       ELSE st

\* The field groups, numbered in source order.
Groups == 0 .. 9

field(g, st, vals) ==
  CASE g = 0 -> context_field(st, vals)
    [] g = 1 -> title_field(st, vals)
    [] g = 2 -> active_field(st, vals)
    [] g = 3 -> fullscreen_field(st, vals)
    [] g = 4 -> fps_field(st, vals)
    [] g = 5 -> size_field(st, vals)
    [] g = 6 -> position_field(st, vals)
    [] g = 7 -> cursor_field(st, vals)
    [] g = 8 -> fit_field(st, vals)
    [] OTHER -> visible_field(st, vals)

\* The body as it would be with the groups taken from the last to the first.
RECURSIVE fields_from_reversed(_, _, _)
fields_from_reversed(g, st, vals) ==
  IF g > 9 \/ st.res # "Run" THEN st
  ELSE fields_from_reversed(g + 1, field(9 - g, st, vals), vals)

\* The body of `if let Ok(vals) = array.to_vec(cx)`: each group in turn; a `?`
\* that fails or a panic leaves at once.  Each group's result is computed once
\* and handed to the next group as a value.
RECURSIVE fields_from(_, _, _)
fields_from(g, st, vals) ==
  IF g > 9 \/ st.res # "Run" THEN st
  ELSE CHOOSE done \in {fields_from(g + 1, next, vals) : next \in {field(g, st, vals)}} :
         TRUE

\* handle_feedback as it would be if a reply that is not an array were an error.
handle_feedback_strict(st, feedback) ==
  IF feedback.kind # "array" THEN [st EXCEPT !.res = "Err"]
  ELSE LET done == fields_from(0, st, feedback.vals)
       IN IF done.res = "Run" THEN [done EXCEPT !.res = "Ok"] ELSE done

\* Window::handle_feedback.  A reply that is not a JsArray skips the whole
\* body and falls through to Ok(()).
handle_feedback(st, feedback) ==
  LET done == IF feedback.kind = "array" THEN fields_from(0, st, feedback.vals) ELSE st
  IN IF done.res = "Run" THEN [done EXCEPT !.res = "Ok"] ELSE done

\* event::Sieve::serialized: the accumulated entries as one batch, and the
\* collector emptied.
serialized(st) == [batch |-> st.ui_events, st |-> [st EXCEPT !.ui_events = <<>>]]

\* communicate as it would be if the batch stayed in the collector.
communicate_undrained(st, outcome) ==
  LET changes == serialized(st)
  IN IF outcome.kind = "threw"
     THEN [ret |-> "Exit", called |-> TRUE, batch |-> changes.batch,
           st |-> [st EXCEPT !.res = "Ok"]]
     ELSE LET fb == handle_feedback(st, outcome)
          IN [ret |-> CASE fb.res = "Ok" -> "Poll"
                        [] fb.res = "Err" -> "Exit"
                        [] OTHER -> "Panic",
              called |-> TRUE, batch |-> changes.batch, st |-> fb]

\* Window::communicate.  serialized() drains the collector, the callback is
\* called with the batch, and its outcome decides the directive.
communicate(st, outcome) ==
  LET changes == serialized(st)
      drained == changes.st
  IN IF outcome.kind = "threw"
     THEN [ret |-> "Exit", called |-> TRUE, batch |-> changes.batch,
           st |-> [drained EXCEPT !.res = "Ok"]]
     ELSE LET fb == handle_feedback(drained, outcome)
          IN [ret |-> CASE fb.res = "Ok" -> "Poll"
                        [] fb.res = "Err" -> "Exit"
                        [] OTHER -> "Panic",
              called |-> TRUE, batch |-> changes.batch, st |-> fb]

\* communicate_pending as it would be without the emptiness test.
communicate_pending_always(st, outcome) == communicate(st, outcome)

\* Window::communicate_pending
communicate_pending(st, outcome) ==
  IF st.ui_events = <<>>
  THEN [ret |-> "Poll", called |-> FALSE, batch |-> <<>>,
        st |-> [st EXCEPT !.res = "Ok"]]
  ELSE communicate(st, outcome)

----------------------------------------------------------------------------
(* The inputs: what the script may answer and what the OS may report.      *)

\* A 12-position reply with every position undefined, then with some filled.
Blank == [i \in 1 .. 12 |-> JsUndefined]
Filled(fill) ==
  [i \in 1 .. 12 |->
     IF \E p \in fill : p[1] = i - 1
     THEN (CHOOSE p \in fill : p[1] = i - 1)[2]
     ELSE JsUndefined]

\* Replies that fill one field group with well-typed values.
GroupFills ==
  [g \in Groups |->
     CASE g = 0 -> {{<<0, JsBox>>}}
       [] g = 1 -> {{<<1, v>>} : v \in {JsString(""), JsString("a")}}
       [] g = 2 -> {{<<2, v>>} : v \in {JsBoolean(TRUE), JsBoolean(FALSE)}}
       [] g = 3 -> {{<<3, v>>} : v \in {JsBoolean(TRUE), JsBoolean(FALSE)}}
       [] g = 4 -> {{<<4, v>>} : v \in {JsNumber(0), JsNumber(2), JsNumber(3)}}
       [] g = 5 -> { {<<5, JsNumber(800)>>, <<6, JsNumber(600)>>},
                     {<<5, JsNumber(1601)>>, <<6, JsNumber(1200)>>} }
       [] g = 6 -> { {<<7, JsNumber(0)>>, <<8, JsNumber(0)>>},
                     {<<7, JsNumber(-3)>>, <<8, JsNumber(4)>>} }
       [] g = 7 -> {{<<9, v>>} : v \in {JsString("default"), JsString("crosshair"),
                                         JsString("none"), JsString("bogus")}}
       [] g = 8 -> {{<<10, v>>} : v \in {JsString("contain-y"), JsString("none"),
                                          JsString("bogus")}}
       [] OTHER -> {{<<11, v>>} : v \in {JsBoolean(TRUE), JsBoolean(FALSE)}}]

\* Replies that fill every position, and the alternating replies: the odd
\* or the even positions of a full reply, the others undefined.
FullA == <<JsBox, JsString("a"), JsBoolean(TRUE), JsBoolean(TRUE), JsNumber(3),
           JsNumber(1601), JsNumber(1200), JsNumber(-3), JsNumber(4),
           JsString("crosshair"), JsString("contain-y"), JsBoolean(TRUE)>>
FullB == <<JsBox, JsString(""), JsBoolean(FALSE), JsBoolean(FALSE), JsNumber(0),
           JsNumber(800), JsNumber(600), JsNumber(0), JsNumber(0),
           JsString("none"), JsString("none"), JsBoolean(FALSE)>>
Odd(r) == [i \in 1 .. 12 |-> IF (i - 1) % 2 = 1 THEN r[i] ELSE JsUndefined]
Even(r) == [i \in 1 .. 12 |-> IF (i - 1) % 2 = 0 THEN r[i] ELSE JsUndefined]

\* A value of another type than the one given.
Mistype(v) == IF v.t = "number" THEN JsString("7") ELSE JsNumber(2)
\* r with the listed positions mistyped.
Mistyped(r, at) == [i \in 1 .. 12 |-> IF (i - 1) \in at THEN Mistype(r[i]) ELSE r[i]]

\* Replies that touch several field groups at once.
MixedVecs ==
  {FullA, FullB, Odd(FullA), Even(FullA), Odd(FullB), Even(FullB),
   Mistyped(FullA, 0 .. 11), Mistyped(FullA, {0, 2, 3, 6, 7, 10}),
   Mistyped(FullB, {1, 4, 5, 8, 9, 11})}

Vecs12 ==
  {Blank} \cup MixedVecs
    \cup {Filled(f) : f \in UNION {GroupFills[g] : g \in Groups}}

\* Arrays shorter than 12.
ShortVecs == {<<>>, SubSeq(FullA, 1, 5), SubSeq(FullB, 1, 11)}

\* What `callback.call` comes back with: an array, a value that is not an
\* array, or an exception.  NoCall stands for the callback not being called.
Array(vals) == [kind |-> "array", vals |-> vals]
NotArray == [kind |-> "value", vals |-> <<>>]
Threw == [kind |-> "threw", vals |-> <<>>]
NoCall == [kind |-> "none", vals |-> <<>>]

\* Well-formed replies: arrays of 12 positions.
Replies == {Array(v) : v \in Vecs12}
\* Everything `callback.call` can come back with.
Outcomes == Replies \cup {Array(v) : v \in ShortVecs} \cup {NotArray, Threw}

\* The script is free to answer anything.
Whatever == [kind |-> "any", vals |-> <<>>]
\* The outcomes the turns go through while the script is free: everything that
\* is not a 12-position array, the replies that touch several groups, the
\* empty one, and the replies that fill one group for the keep-running flag,
\* fullscreen, size, visible and an unknown cursor name.  (The claims put
\* every outcome of Outcomes to every state these turns reach.)
Taken ==
  (Outcomes \ Replies)
    \cup {Array(v) : v \in MixedVecs \cup {Blank}}
    \cup {Array(Filled(f)) : f \in UNION {GroupFills[g] : g \in {2, 3, 5, 9}}}
    \cup {Array(Filled({<<9, JsString("bogus")>>}))}

\* What the callback can come back with when called now.
Answers == IF script = Whatever THEN Taken ELSE {script}

\* Window::new's width and height (as script numbers), view.dpr(), and the
\* physical sizes and points the OS reports.
NewArgs == {<<800, 600>>}
Dprs == {2}
PhysicalSizes == {<<800, 600>>}
PhysicalPoints == {<<-2, 4>>}

----------------------------------------------------------------------------
(* The state machine.                                                      *)

Now == Machine(win, proxy, js_events, ui_events)

Did(op, reply, st) ==
  [op |-> op, reply |-> reply, cmds |-> st.cmds, sent |-> st.sent]

\* The handler ran to st: its writes become the state.
Becomes(st) ==
  /\ win' = st.win
  /\ ui_events' = st.ui_events
  /\ UNCHANGED <<proxy, js_events, script>>

\* The boolean of the last Visible command among cmds, or prev if there is none.
LastVisible(cmds, prev) ==
  LET at == {i \in 1 .. Len(cmds) : cmds[i].c = "Visible"}
  IN IF at = {} THEN prev
     ELSE cmds[CHOOSE i \in at : \A j \in at : j <= i].b

\* Window::new: the attributes of a new window.
new(width, height) ==
  [position |-> <<0, 0>>, size |-> <<as_u32(width), as_u32(height)>>,
   title |-> "", cursor |-> "Default", fit |-> "ContainY", dpr |-> 1,
   fps |-> 0, visible |-> FALSE, animated |-> FALSE, fullscreen |-> FALSE]

\* Window::new
Init ==
  /\ \E a \in NewArgs : win = new(a[1], a[2])
  /\ proxy = "open"
  /\ js_events = "None"
  /\ ui_events = <<>>
  /\ control_flow = "Poll"
  /\ last = [op |-> "new", reply |-> NoCall, cmds |-> <<>>, sent |-> <<>>]
  /\ script = Whatever
  /\ shown = FALSE

\* Window::new_view
new_view ==
  /\ control_flow = "Poll"
  /\ js_events = "None"
  /\ \E d \in Dprs : win' = [win EXCEPT !.dpr = d]
  /\ js_events' = "Open"
  /\ last' = Did("new_view", NoCall, Now)
  /\ UNCHANGED <<proxy, ui_events, control_flow, script, shown>>

\* Window::show
show ==
  /\ control_flow = "Poll"
  /\ LET st == send_event_ok(Now, Visible(TRUE))
     IN /\ last' = Did("show", NoCall, st)
        /\ shown' = LastVisible(st.cmds, shown)
  /\ UNCHANGED <<win, proxy, js_events, ui_events, control_flow, script>>

\* Window events reach the window, and the view its fullscreen transitions,
\* once a view (and with it the OS window) exists and while the native loop,
\* which delivers them, is there.
Delivering == js_events # "None" /\ proxy = "open"

\* went_fullscreen as it would be without the comparison with the cache.
went_fullscreen_op_unguarded(st, is_fullscreen) ==
  go_fullscreen([st EXCEPT !.win.fullscreen = is_fullscreen], is_fullscreen)

\* Window::went_fullscreen, called by the view
went_fullscreen_op(st, is_fullscreen) ==
  IF is_fullscreen # st.win.fullscreen
  THEN go_fullscreen([st EXCEPT !.win.fullscreen = is_fullscreen], is_fullscreen)
  ELSE st

went_fullscreen ==
  /\ control_flow = "Poll"
  /\ Delivering
  /\ Len(ui_events) < MaxEvents
  /\ \E b \in BOOLEAN :
       LET st == went_fullscreen_op(Now, b)
       IN Becomes(st) /\ last' = Did("went_fullscreen", NoCall, st)
  /\ UNCHANGED <<control_flow, shown>>

\* handle_event as it would be if it cached the physical size as it came.
handle_event_op_unscaled(st, ev) ==
  LET s1 == IF ev.kind = "Resized"
            THEN channel_send([st EXCEPT !.win.size = ev.at], Resized(ev.at))
            ELSE st
      s2 == IF s1.res = "Run" /\ ev.kind = "Moved"
            THEN [s1 EXCEPT !.win.position = from_physical(ev.at, s1.win.dpr)]
            ELSE s1
  IN IF s2.res = "Run"
     THEN [capture(s2, ev.kind) EXCEPT !.res = "Ok"]
     ELSE s2

\* Window::handle_event on a WindowEvent
handle_event_op(st, ev) ==
  LET s1 == IF ev.kind = "Resized"
            THEN channel_send(
                   [st EXCEPT !.win.size = from_physical(ev.at, st.win.dpr)],
                   Resized(ev.at))
            ELSE st
      s2 == IF s1.res = "Run" /\ ev.kind = "Moved"
            THEN [s1 EXCEPT !.win.position = from_physical(ev.at, s1.win.dpr)]
            ELSE s1
  IN IF s2.res = "Run"
     THEN [capture(s2, ev.kind) EXCEPT !.res = "Ok"]
     ELSE s2

WindowEvents ==
  {[kind |-> "Resized", at |-> p] : p \in PhysicalSizes}
    \cup {[kind |-> "Moved", at |-> p] : p \in PhysicalPoints}

handle_event ==
  /\ control_flow = "Poll"
  /\ Delivering
  /\ Len(ui_events) < MaxEvents
  /\ \E ev \in WindowEvents :
       LET st == handle_event_op(Now, ev)
       IN /\ Becomes(st)
          /\ last' = Did("handle_event", NoCall, st)
          /\ control_flow' = IF st.res = "Panic" THEN "Panic" ELSE "Poll"
  /\ UNCHANGED shown

\* What the callback may do this turn.  With an empty collector it is not
\* called, every outcome gives the same step, and one stands for all.
Called == IF ui_events = <<>> THEN {NoCall} ELSE Answers

\* One turn of the native loop: Window::communicate_pending and the
\* directive it returns.
tick ==
  /\ control_flow = "Poll"
  /\ \E o \in Called :
       LET r == communicate_pending(Now, o)
       IN /\ Becomes(r.st)
          /\ last' = Did("tick", IF r.called THEN o ELSE NoCall, r.st)
          /\ control_flow' = r.ret
          /\ shown' = LastVisible(r.st.cmds, shown)

\* The native loop is torn down: the proxy's sends fail from now on.
loop_destroyed ==
  /\ control_flow = "Poll"
  /\ proxy = "open"
  /\ proxy' = "closed"
  /\ UNCHANGED <<win, js_events, ui_events, control_flow, last, script, shown>>

\* The view is dropped and its receiver with it.
view_dropped ==
  /\ control_flow = "Poll"
  /\ js_events = "Open"
  /\ js_events' = "Closed"
  /\ UNCHANGED <<win, proxy, ui_events, control_flow, last, script, shown>>

Next ==
  \/ new_view
  \/ show
  \/ went_fullscreen
  \/ handle_event
  \/ tick
  \/ loop_destroyed
  \/ view_dropped

Spec == Init /\ [][Next]_vars

----------------------------------------------------------------------------
(* The window left alone: some events have arrived, none arrives any more,  *)
(* both channels stay open, and the script gives the same 12-position reply *)
(* on every call.  The native loop keeps taking turns.                      *)

\* A window with its view, as new_view leaves it.
Attached ==
  {Machine([new(a[1], a[2]) EXCEPT !.dpr = d], "open", "Open", <<>>) :
     a \in NewArgs, d \in Dprs}

\* The window after an earlier turn, or none.
Conversed ==
  Attached \cup {handle_feedback(m, Array(v)) : m \in Attached, v \in {FullA, FullB}}

\* The window one event later.
Arrive(ms) ==
  LET at(m) == Machine(m.win, "open", "Open", m.ui_events)
  IN {handle_event_op(at(m), ev) : m \in ms, ev \in WindowEvents}
       \cup {went_fullscreen_op(at(m), b) : m \in ms, b \in BOOLEAN}

\* The windows with events waiting in the collector.
Waiting ==
  {m \in Arrive(Conversed) \cup Arrive(Arrive(Conversed)) :
     Len(m.ui_events) \in 1 .. MaxEvents}

QuietInit ==
  /\ \E m \in Waiting :
       /\ win = m.win
       /\ ui_events = m.ui_events
       /\ shown = m.win.visible
  /\ script \in Replies
  /\ proxy = "open"
  /\ js_events = "Open"
  /\ control_flow = "Poll"
  /\ last = [op |-> "events", reply |-> NoCall, cmds |-> <<>>, sent |-> <<>>]

QuietNext == tick

\* The native loop calls communicate_pending on every iteration.
QuietSpec == QuietInit /\ [][QuietNext]_vars /\ WF_vars(tick)

----------------------------------------------------------------------------
(* The claims.  Each is stated of the handlers applied to the state the    *)
(* window is in, for every outcome of the callback.                         *)

\* The native loop is running: a turn can happen in this state.
Live == control_flow = "Poll"

\* The turn the loop takes next calls the script and reconciles its reply.
Pending == Live /\ ui_events # <<>>

\* The turn the loop would take now if the callback came back with o.
Turn(o) == communicate_pending(Now, o)

\* How many commands of one kind a handler sent.
Count(seq, name) == Cardinality({i \in 1 .. Len(seq) : seq[i].c = name})

C2_EmptyFastPath ==
  /\ Live =>
       \A o \in Outcomes :
         LET r == Turn(o)
         IN /\ r.called => ui_events # <<>>
            /\ ui_events = <<>> =>
                 /\ ~r.called
                 /\ r.ret = "Poll"
                 /\ r.st.cmds = <<>>
                 /\ r.st.sent = <<>>
                 /\ r.st.win = win
                 /\ r.st.ui_events = <<>>
  /\ (last.op = "tick" /\ last.reply = NoCall) =>
       /\ control_flow = "Poll"
       /\ last.cmds = <<>>
       /\ last.sent = <<>>
       /\ ui_events = <<>>

\* A turn has just found the collector empty and not called the script.
C2_Witness == last.op = "tick" /\ last.reply = NoCall /\ js_events = "Open"

\* The reconciliation a turn would run now on reply o: handle_feedback on
\* the window as it is, the collector just drained by serialized().
Reconcile(o) == handle_feedback([Now EXCEPT !.ui_events = <<>>], o)

\* A handler sent `cmd` as its only command of that kind, or none of the kind.
SentOnce(seq, cmd) ==
  Count(seq, cmd.c) = 1 /\ \E i \in 1 .. Len(seq) : seq[i] = cmd
SentIff(seq, cmd, differs) ==
  IF differs THEN SentOnce(seq, cmd) ELSE Count(seq, cmd.c) = 0

\* A script number (n = twice the value) as the integer the attribute holds:
\* cut toward zero, and 0 when negative for the unsigned attributes.
Cut(h) == IF h >= 0 THEN h \div 2 ELSE -((-h) \div 2)
CutUnsigned(h) == IF Cut(h) < 0 THEN 0 ELSE Cut(h)

\* C3 (as amended): in a reconciliation that runs to its end, each diffed
\* field that is present and well-typed - title (1), fps (4), size (5+6),
\* position (7+8), visible (11) - puts its command on the command channel,
\* once, if and only if the reply value, converted to the attribute's integer
\* type for the numeric fields (cut toward zero, negative to 0 for fps and
\* size), differs from the cached value; afterwards the cached attribute
\* equals that converted value (so when they are equal nothing is sent and the
\* cache keeps its value).
C3_DiffedFields ==
  Pending => \A o \in Replies :
    LET fb == Reconcile(o)
        v == o.vals
        fps == CutUnsigned(v[5].n)
        size == <<CutUnsigned(v[6].n), CutUnsigned(v[7].n)>>
        position == <<Cut(v[8].n), Cut(v[9].n)>>
    IN fb.res = "Ok" =>
         /\ v[2].t = "string" =>
              /\ SentIff(fb.cmds, Title(v[2].s), v[2].s # win.title)
              /\ fb.win.title = v[2].s
         /\ v[5].t = "number" =>
              /\ SentIff(fb.cmds, FrameRate(fps), fps # win.fps)
              /\ fb.win.fps = fps
         /\ (v[6].t = "number" /\ v[7].t = "number") =>
              /\ SentIff(fb.cmds, Size(size), size # win.size)
              /\ fb.win.size = size
         /\ (v[8].t = "number" /\ v[9].t = "number") =>
              /\ SentIff(fb.cmds, Position(position), position # win.position)
              /\ fb.win.position = position
         /\ v[12].t = "boolean" =>
              /\ SentIff(fb.cmds, Visible(v[12].b), v[12].b # win.visible)
              /\ fb.win.visible = v[12].b

\* C3 as claimed: the command is sent if and only if the reply value itself
\* differs from the cached value, and afterwards the cache equals the reply
\* value.
C3_RawReplyValue ==
  Pending => \A o \in Replies :
    LET fb == Reconcile(o)
        v == o.vals
    IN fb.res = "Ok" =>
         /\ v[2].t = "string" =>
              /\ Count(fb.cmds, "Title") = (IF v[2].s # win.title THEN 1 ELSE 0)
              /\ fb.win.title = v[2].s
         /\ v[5].t = "number" =>
              /\ Count(fb.cmds, "FrameRate") = (IF v[5].n # 2 * win.fps THEN 1 ELSE 0)
              /\ 2 * fb.win.fps = v[5].n
         /\ (v[6].t = "number" /\ v[7].t = "number") =>
              /\ Count(fb.cmds, "Size") =
                   (IF <<v[6].n, v[7].n>> # <<2 * win.size[1], 2 * win.size[2]>>
                    THEN 1 ELSE 0)
              /\ <<2 * fb.win.size[1], 2 * fb.win.size[2]>> = <<v[6].n, v[7].n>>
         /\ (v[8].t = "number" /\ v[9].t = "number") =>
              /\ Count(fb.cmds, "Position") =
                   (IF <<v[8].n, v[9].n>> # <<2 * win.position[1], 2 * win.position[2]>>
                    THEN 1 ELSE 0)
              /\ <<2 * fb.win.position[1], 2 * fb.win.position[2]>> = <<v[8].n, v[9].n>>
         /\ v[12].t = "boolean" =>
              /\ Count(fb.cmds, "Visible") = (IF v[12].b # win.visible THEN 1 ELSE 0)
              /\ fb.win.visible = v[12].b

\* A turn has just reconciled a full reply against a cache an OS resize had
\* written: the size, given as 800.5 x 600, equals the cached 800 x 600 once
\* converted and is not sent, while title, fps, position and visible differ
\* and are.
C3_Witness ==
  /\ last.op = "tick"
  /\ last.reply = Array(FullA)
  /\ control_flow = "Poll"
  /\ last.cmds = <<Page, Title("a"), FrameRate(1), Position(<<-1, 2>>),
                   Cursor("Crosshair"), Visible(TRUE)>>
  /\ win.size = <<800, 600>>

\* The commands a reply calls for whatever the cache holds: the page of its
\* context (0), Close for a false keep-running flag (2), and the unset
\* commands for a cursor (9) or fit (10) of "none".
Unconditional(v) ==
  (IF v[1].t = "box" THEN <<Page>> ELSE <<>>)
    \o (IF v[3].t = "boolean" /\ ~v[3].b THEN <<Close>> ELSE <<>>)
    \o (IF v[10].t = "string" /\ v[10].s = "none" THEN <<Cursor("None")>> ELSE <<>>)
    \o (IF v[11].t = "string" /\ v[11].s = "none" THEN <<Fit("None")>> ELSE <<>>)

\* The reconciliation of o run again right after fb, the first one.
Again(fb, o) ==
  handle_feedback([fb EXCEPT !.cmds = <<>>, !.sent = <<>>, !.ui_events = <<>>,
                             !.res = "Run"], o)

\* C4 (as amended): with both channels open, applying handle_feedback a second
\* time with the same well-formed reply leaves the cache as the first
\* application left it, sends nothing on the rendering channel and sends no
\* command of a diffed field; it sends again, and only, the commands that do
\* not depend on the cache: Page (field 0 present), Close (field 2 false),
\* Cursor(None) (field 9 "none") and Fit(None) (field 10 "none").
C4_SecondApplication ==
  (Pending /\ proxy = "open" /\ js_events # "Closed") =>
    \A o \in Replies :
      LET first == Reconcile(o)
          second == Again(first, o)
      IN /\ first.res = "Ok"
         /\ second.res = "Ok"
         /\ second.win = first.win
         /\ second.sent = <<>>
         /\ second.ui_events = <<>>
         /\ second.cmds = Unconditional(o.vals)

\* C4 as claimed: the second application sends nothing at all.
C4_SecondSendsNothing ==
  (Pending /\ proxy = "open" /\ js_events # "Closed") =>
    \A o \in Replies :
      LET first == Reconcile(o)
          second == Again(first, o)
      IN /\ second.win = first.win
         /\ second.sent = <<>>
         /\ second.cmds = <<>>

\* A turn has just reconciled the full reply against a cache that already
\* held every one of its values: only the page went out.
C4_Witness ==
  /\ last.op = "tick"
  /\ last.reply = Array(FullA)
  /\ control_flow = "Poll"
  /\ last.cmds = <<Page>>
  /\ last.sent = <<>>
  /\ win.title = "a" /\ win.fullscreen /\ win.visible /\ win.fps = 1

\* C5: a change at field 3 never appears on the command channel, whatever
\* the callback comes back with; and, with a live view attached and the
\* command channel open, a reply whose field 3 differs from the cached flag
\* sends exactly one Fullscreen(value) on the rendering channel, sets the
\* cached flag to the value and notes it once in the collector, while a reply
\* whose field 3 equals the flag (or is absent) sends nothing there and
\* leaves the flag and the collector alone.
C5_FullscreenRouting ==
  Pending =>
    /\ \A o \in Outcomes : Count(Turn(o).st.cmds, "Fullscreen") = 0
    /\ (proxy = "open" /\ js_events = "Open") =>
         \A o \in Replies :
           LET fb == Reconcile(o)
               v == o.vals
           IN IF v[4].t = "boolean" /\ v[4].b # win.fullscreen
              THEN /\ fb.sent = <<Fullscreen(v[4].b)>>
                   /\ fb.win.fullscreen = v[4].b
                   /\ fb.ui_events = <<"Fullscreen">>
              ELSE /\ fb.sent = <<>>
                   /\ fb.win.fullscreen = win.fullscreen
                   /\ fb.ui_events = <<>>

\* A turn has just forwarded a fullscreen request: one message on the
\* rendering channel, nothing on the command channel.
C5_Witness ==
  /\ last.op = "tick"
  /\ last.reply = Array(Filled({<<3, JsBoolean(TRUE)>>}))
  /\ last.sent = <<Fullscreen(TRUE)>>
  /\ last.cmds = <<>>
  /\ win.fullscreen
  /\ ui_events = <<"Fullscreen">>
  /\ control_flow = "Poll"

\* C6: with the command channel open, every reconciliation of a reply whose
\* field 2 is the boolean false sends exactly one Close, whatever is cached
\* and also when the same reply was reconciled just before; a reply whose
\* field 2 is true, absent or not a boolean never sends Close.
C6_CloseSemantics ==
  Pending =>
    \A o \in {x \in Outcomes : x.kind = "array"} :
      LET fb == Reconcile(o)
          v == o.vals
          asks == InBounds(v, 2) /\ v[3].t = "boolean" /\ ~v[3].b
      IN /\ ~asks => Count(fb.cmds, "Close") = 0
         /\ (asks /\ proxy = "open") =>
              /\ Count(fb.cmds, "Close") = 1
              /\ fb.res = "Ok" => Count(Again(fb, o).cmds, "Close") = 1

\* A turn has just sent Close for a reply that carries only a false flag.
C6_Witness ==
  /\ last.op = "tick"
  /\ last.reply = Array(Filled({<<2, JsBoolean(FALSE)>>}))
  /\ last.cmds = <<Close>>
  /\ control_flow = "Poll"

\* C7: in a reconciliation that reaches the field (both channels open), a
\* cursor field (9) of "none" always sends Cursor(None), once, and leaves the
\* cached cursor None, also when the cached cursor is None already; a fit
\* field (10) of "none" likewise sends Fit(None) and leaves the cached fit None.
C7_SentinelOverride ==
  (Pending /\ proxy = "open" /\ js_events # "Closed") =>
    \A o \in Replies :
      LET fb == Reconcile(o)
          v == o.vals
      IN /\ (v[10].t = "string" /\ v[10].s = "none") =>
              /\ SentOnce(fb.cmds, Cursor("None"))
              /\ fb.win.cursor = "None"
         /\ (v[11].t = "string" /\ v[11].s = "none") =>
              /\ SentOnce(fb.cmds, Fit("None"))
              /\ fb.win.fit = "None"

\* A turn has just sent Cursor(None) and Fit(None) for a full reply, the
\* cache holds None for both, and the fullscreen change of that reply has
\* left a notification in the collector: the next turn reconciles against a
\* cursor and a fit that are None already.
C7_Witness ==
  /\ last.op = "tick"
  /\ last.reply = Array(FullB)
  /\ SentOnce(last.cmds, Cursor("None"))
  /\ SentOnce(last.cmds, Fit("None"))
  /\ win.cursor = "None" /\ win.fit = "None"
  /\ Pending /\ proxy = "open" /\ js_events = "Open"

\* C8 as claimed: if a send on the command channel fails during
\* reconciliation, handle_feedback returns an error, the turn returns Exit
\* and nothing is delivered (no retry); if the script call succeeds and every
\* send succeeds (both channels open), the turn returns Poll.
C8_ExitOrPoll ==
  Pending =>
    \A o \in Outcomes \ {Threw} :
      LET r == Turn(o)
      IN /\ r.st.res = "Err" => (r.ret = "Exit" /\ r.st.cmds = <<>>)
         /\ (proxy = "closed" /\ Reconcile(o).res = "Ok")
              => handle_feedback([Now EXCEPT !.proxy = "open"], o).cmds = <<>>
         /\ (proxy = "open" /\ js_events # "Closed") => r.ret = "Poll"

\* C8 on replies of 12 positions (and replies that are not arrays), where
\* it holds.
C8_ExitOrPoll12 ==
  Pending =>
    \A o \in Replies \cup {NotArray} :
      LET r == Turn(o)
      IN /\ r.st.res = "Err" => (r.ret = "Exit" /\ r.st.cmds = <<>>)
         /\ (proxy = "closed" /\ Reconcile(o).res = "Ok")
              => handle_feedback([Now EXCEPT !.proxy = "open"], o).cmds = <<>>
         /\ (proxy = "open" /\ js_events # "Closed") => r.ret = "Poll"

\* C9 as claimed: with the rendering channel closed, a reply whose field 3
\* differs from the cached flag makes the reconciler report an error and the
\* turn return Exit.
C9_ClosedViewExits ==
  (Pending /\ js_events = "Closed") =>
    \A o \in Replies :
      (o.vals[4].t = "boolean" /\ o.vals[4].b # win.fullscreen) =>
        LET r == Turn(o)
        IN r.ret = "Exit" /\ r.st.res = "Err"

\* The positions of a field group, the value type it takes, and a reply cut
\* down to one group.
Positions(g) ==
  CASE g = 5 -> {5, 6}
    [] g = 6 -> {7, 8}
    [] g < 5 -> {g}
    [] OTHER -> {g + 2}
TypeOf(g) ==
  CASE g = 0 -> "box"
    [] g \in {1, 7, 8} -> "string"
    [] g \in {2, 3, 9} -> "boolean"
    [] OTHER -> "number"
Only(v, g) == [i \in 1 .. 12 |-> IF (i - 1) \in Positions(g) THEN v[i] ELSE JsUndefined]
Skipped(v, g) == \E i \in Positions(g) : v[i + 1].t # TypeOf(g)

\* What a reconciliation did for one field group: the commands of the group,
\* its cached attribute, and for fullscreen the rendering channel and the
\* collector.
CommandOf(g) ==
  <<"Page", "Title", "Close", "Fullscreen", "FrameRate", "Size", "Position",
    "Cursor", "Fit", "Visible">>[g + 1]
Attribute(w, g) ==
  CASE g = 1 -> <<w.title>>
    [] g = 3 -> <<w.fullscreen>>
    [] g = 4 -> <<w.fps>>
    [] g = 5 -> w.size
    [] g = 6 -> w.position
    [] g = 7 -> <<w.cursor>>
    [] g = 8 -> <<w.fit>>
    [] g = 9 -> <<w.visible>>
    [] OTHER -> <<>>
Effect(fb, g) ==
  [n |-> Count(fb.cmds, CommandOf(g)),
   cmds |-> {fb.cmds[i] : i \in {j \in 1 .. Len(fb.cmds) : fb.cmds[j].c = CommandOf(g)}},
   attr |-> Attribute(fb.win, g),
   sent |-> IF g = 3 THEN fb.sent ELSE <<>>,
   noted |-> IF g = 3 THEN fb.ui_events ELSE <<>>]

\* C10: with all sends succeeding, a 12-position reply in which some
\* positions are absent or of the wrong type is reconciled without error, and
\* for each field group the commands sent and the cached attribute are those
\* of a reply holding that group alone; a skipped group sends nothing and
\* leaves its cached attribute as it was.
C10_FieldIndependence ==
  (Pending /\ proxy = "open" /\ js_events # "Closed") =>
    \A v \in MixedVecs :
      LET whole == Reconcile(Array(v))
          nothing == Reconcile(Array(Blank))
      IN /\ whole.res = "Ok"
         /\ \A g \in Groups :
              /\ Effect(whole, g) = Effect(Reconcile(Array(Only(v, g))), g)
              /\ Skipped(v, g) => Effect(whole, g) = Effect(nothing, g)
         /\ nothing.win = win /\ nothing.cmds = <<>> /\ nothing.sent = <<>>

\* A turn has just reconciled the reply with positions 0, 2, 4, 6, 8 and 10
\* missing: title, fullscreen, cursor and visible are applied, the lone
\* width and the lone x are skipped.
C10_Witness ==
  /\ last.op = "tick"
  /\ last.reply = Array(Odd(FullA))
  /\ last.cmds = <<Title("a"), Cursor("Crosshair"), Visible(TRUE)>>
  /\ last.sent = <<Fullscreen(TRUE)>>
  /\ win.size = <<400, 300>> /\ win.position = <<0, 0>> /\ win.fps = 0
  /\ control_flow = "Poll"

\* Physical sizes a resize may carry, also ones the scale factor does not
\* divide.
ResizeProbes == PhysicalSizes \cup {<<801, 601>>, <<1, 0>>}

\* n is p / d to the nearest integer (p / d itself when d divides p).
Nearest(n, p, d) ==
  /\ 2 * (n * d - p) <= d
  /\ 2 * (p - n * d) <= d
  /\ (p % d = 0) => n * d = p

\* C11: on an OS resize with a live view attached, the cached logical size
\* becomes the physical size divided by the cached device pixel ratio (to the
\* nearest pixel), exactly one Resized carrying the physical size goes out on
\* the rendering channel, nothing goes out on the command channel, nothing else
\* cached changes and the event is entered in the collector.
C11_ResizeIngestion ==
  (Live /\ js_events = "Open") =>
    \A p \in ResizeProbes :
      LET st == handle_event_op(Now, [kind |-> "Resized", at |-> p])
      IN /\ st.res = "Ok"
         /\ Nearest(st.win.size[1], p[1], win.dpr)
         /\ Nearest(st.win.size[2], p[2], win.dpr)
         /\ st.win = [win EXCEPT !.size = st.win.size]
         /\ st.sent = <<Resized(p)>>
         /\ st.cmds = <<>>
         /\ st.ui_events = Append(ui_events, "Resized")

\* A physical resize to 800 x 600 has just been taken in at ratio 2, after a
\* turn that changed title and fullscreen: the cache holds 400 x 300 and the
\* physical size went out on the rendering channel.
C11_Witness ==
  /\ last.op = "handle_event"
  /\ last.sent = <<Resized(<<800, 600>>)>>
  /\ last.cmds = <<>>
  /\ win.dpr = 2
  /\ win.size = <<400, 300>>
  /\ win.title = "a"
  /\ ui_events = <<"Fullscreen", "Resized">>
  /\ control_flow = "Poll"

\* The place of a command in field order: Page (0), Title (1), Close (2),
\* FrameRate (4), Size (5+6), Position (7+8), Cursor (9), Fit (10), Visible (11).
Rank(cmd) ==
  CASE cmd.c = "Page" -> 0
    [] cmd.c = "Title" -> 1
    [] cmd.c = "Close" -> 2
    [] cmd.c = "FrameRate" -> 4
    [] cmd.c = "Size" -> 5
    [] cmd.c = "Position" -> 7
    [] cmd.c = "Cursor" -> 9
    [] cmd.c = "Fit" -> 10
    [] cmd.c = "Visible" -> 11
    [] OTHER -> -1

\* C12: the commands one reconciliation puts on the command channel are
\* commands of the nine command-channel fields and appear in strictly
\* increasing field order (so at most one per field group), for every array
\* the callback can return and every cached state.
C12_CommandOrder ==
  Pending =>
    \A o \in {x \in Outcomes : x.kind = "array"} :
      LET cmds == Reconcile(o).cmds
      IN /\ \A i \in 1 .. Len(cmds) : Rank(cmds[i]) >= 0
         /\ \A i \in 1 .. Len(cmds) : \A j \in 1 .. Len(cmds) :
              i < j => Rank(cmds[i]) < Rank(cmds[j])

\* A turn has just sent all nine commands for one reply, in field order.
C12_Witness ==
  /\ last.op = "tick"
  /\ last.reply = Array(FullB)
  /\ last.cmds = <<Page, Title(""), Close, FrameRate(0), Size(<<400, 300>>),
                   Position(<<0, 0>>), Cursor("None"), Fit("None"),
                   Visible(FALSE)>>
  /\ control_flow = "Poll"

\* a is the beginning of b.
IsPrefix(a, b) == Len(a) <= Len(b) /\ SubSeq(b, 1, Len(a)) = a

\* This step is a turn of the loop (the other steps that leave last.op at
\* "tick" are the channels closing).
Ticked == last'.op = "tick" /\ proxy' = proxy /\ js_events' = js_events

\* C13: a turn that finds the collector non-empty calls the script once, with
\* a batch that is the whole collector in arrival order, and leaves in the
\* collector nothing of that batch: only the notification its own
\* reconciliation added, which waits for the following turn; a turn that finds
\* it empty delivers nothing; and every other step keeps the entries already
\* collected, in order, adding at the end.  So each entry is delivered in the
\* batch of the first turn after it was entered and in no later one.
C13_BatchDelivery ==
  [][IF Ticked
     THEN IF ui_events = <<>>
          THEN last'.reply = NoCall /\ ui_events' = <<>>
          ELSE /\ last'.reply \in Answers
               /\ LET r == Turn(last'.reply)
                  IN r.called /\ r.batch = ui_events
               /\ ui_events' \in {<<>>, <<"Fullscreen">>}
               /\ ui_events' = <<"Fullscreen">> => win'.fullscreen # win.fullscreen
               /\ (win'.fullscreen # win.fullscreen /\ control_flow' # "Panic")
                    => ui_events' = <<"Fullscreen">>
     ELSE IsPrefix(ui_events, ui_events')]_vars

\* A turn has just delivered a batch and answered with the full reply: the
\* move of the batch is no longer in the collector, which holds only the
\* notification of the fullscreen change this turn made.
C13_Witness ==
  /\ last.op = "tick"
  /\ last.reply = Array(FullA)
  /\ last.sent = <<Fullscreen(TRUE)>>
  /\ ui_events = <<"Fullscreen">>
  /\ win.position = <<-1, 2>>
  /\ win.size = <<800, 600>>
  /\ proxy = "open"
  /\ control_flow = "Poll"

\* A short array filled up to 12 positions with undefined.
Padded(v) == [i \in 1 .. 12 |-> IF i <= Len(v) THEN v[i] ELSE JsUndefined]

\* C14 as claimed: with both channels open, an array of fewer than 12
\* elements is reconciled like the same array with the missing positions
\* absent - what is present and well-typed is applied - and reconciliation
\* returns success, so that the turn returns Poll.
C14_ShortReplyHandled ==
  (Pending /\ proxy = "open" /\ js_events # "Closed") =>
    \A v \in ShortVecs :
      LET fb == Reconcile(Array(v))
          padded == Reconcile(Array(Padded(v)))
      IN /\ fb.res = "Ok"
         /\ fb.win = padded.win
         /\ fb.cmds = padded.cmds
         /\ fb.sent = padded.sent
         /\ Turn(Array(v)).ret = "Poll"

\* C14, what the code does instead: the positions that are present are
\* applied as claimed, and then the first index beyond the end aborts the
\* controller.
C14_ShortReplyAborts ==
  (Pending /\ proxy = "open" /\ js_events # "Closed") =>
    \A v \in ShortVecs :
      LET fb == Reconcile(Array(v))
          padded == Reconcile(Array(Padded(v)))
      IN /\ fb.res = "Panic"
         /\ fb.win = padded.win
         /\ fb.cmds = padded.cmds
         /\ fb.sent = padded.sent
         /\ Turn(Array(v)).ret = "Panic"

\* C15 as claimed: an OS resize that arrives while the rendering channel is
\* closed updates the cached size, is entered in the collector and sends
\* nothing, the handler returns normally, and the loop goes on (no handled
\* event ever leaves the controller unwound).
C15_ResizeSurvives ==
  /\ (Live /\ proxy = "open" /\ js_events = "Closed") =>
       \A p \in PhysicalSizes :
         LET st == handle_event_op(Now, [kind |-> "Resized", at |-> p])
         IN /\ st.res = "Ok"
            /\ st.win.size = from_physical(p, win.dpr)
            /\ st.ui_events = Append(ui_events, "Resized")
            /\ st.sent = <<>>
  /\ last.op = "handle_event" => control_flow = "Poll"

\* C16: went_fullscreen(b) with b equal to the cached flag changes nothing
\* and adds nothing to the collector; with b different it sets the cached flag
\* to b and adds exactly one notification, sending nothing on either channel.
\* So a fullscreen change the script asked for, followed by the view's echo
\* went_fullscreen(same value), leaves one notification in the collector and
\* one Fullscreen message on the rendering channel in all.
C16_NoFeedbackLoop ==
  /\ (Live /\ js_events # "None") =>
       \A b \in BOOLEAN :
         LET st == went_fullscreen_op(Now, b)
         IN /\ st.cmds = <<>> /\ st.sent = <<>>
            /\ IF b = win.fullscreen
               THEN st.win = win /\ st.ui_events = ui_events
               ELSE /\ st.win = [win EXCEPT !.fullscreen = b]
                    /\ st.ui_events = Append(ui_events, "Fullscreen")
  /\ (Pending /\ proxy = "open" /\ js_events = "Open") =>
       \A o \in Replies :
         (o.vals[4].t = "boolean" /\ o.vals[4].b # win.fullscreen) =>
           LET fb == Reconcile(o)
               echo == went_fullscreen_op(fb, o.vals[4].b)
           IN /\ echo.win = fb.win
              /\ echo.win.fullscreen = o.vals[4].b
              /\ echo.ui_events = <<"Fullscreen">>
              /\ echo.sent = <<Fullscreen(o.vals[4].b)>>
              /\ Count(echo.cmds, "Fullscreen") = 0

\* went_fullscreen has just run on a window a reply had made fullscreen and
\* visible: the flag is set and the collector holds one notification.
C16_Witness ==
  /\ last.op = "went_fullscreen"
  /\ win.fullscreen
  /\ win.visible
  /\ ui_events = <<"Fullscreen">>
  /\ js_events = "Open"
  /\ control_flow = "Poll"

\* What C17 says of one style field: name is the string of the reply, resolved
\* what the parser makes of it (None: not a recognized name), cached the
\* attribute before and after, n the commands of the field that went out.
StylePolicy(name, resolved, before, after, n, sentResolved) ==
  /\ (resolved = "None" /\ name # "none") => (after = before /\ n = 0)
  /\ (resolved # "None" /\ resolved = before) => (after = before /\ n = 0)
  /\ (resolved # "None" /\ resolved # before) =>
       (after = resolved /\ n = 1 /\ sentResolved)

\* C17: in a reconciliation with both channels open, a cursor (9) or fit
\* (10) string that is neither a recognized name nor "none" leaves the cached
\* cursor / fit unchanged and sends no command; a recognized name equal to the
\* cached value sends nothing either; a recognized name different from the
\* cached value sends exactly one command and the cache holds it afterwards.
C17_UnrecognizedStyle ==
  (Pending /\ proxy = "open" /\ js_events # "Closed") =>
    \A o \in Replies :
      LET fb == Reconcile(o)
          v == o.vals
      IN /\ v[10].t = "string" =>
              StylePolicy(v[10].s, to_cursor_icon(v[10].s), win.cursor,
                          fb.win.cursor, Count(fb.cmds, "Cursor"),
                          SentOnce(fb.cmds, Cursor(to_cursor_icon(v[10].s))))
         /\ v[11].t = "string" =>
              StylePolicy(v[11].s, to_canvas_fit(v[11].s), win.fit,
                          fb.win.fit, Count(fb.cmds, "Fit"),
                          SentOnce(fb.cmds, Fit(to_canvas_fit(v[11].s))))

\* A turn has just reconciled a reply whose only field is an unknown cursor
\* name, against a cached crosshair: nothing went out and the crosshair stays.
C17_Witness ==
  /\ last.op = "tick"
  /\ last.reply = Array(Filled({<<9, JsString("bogus")>>}))
  /\ last.cmds = <<>>
  /\ win.cursor = "Crosshair"
  /\ proxy = "open"
  /\ control_flow = "Poll"

\* C18 as claimed: while the loop runs (every reconciliation so far
\* succeeded), the cached visible flag is the boolean of the most recent
\* Visible command that went out on the command channel (false if none did);
\* and once the window was shown, a reply that asks for visible = false
\* produces a Visible(false) command.
C18_VisibleAccurate ==
  /\ Live => win.visible = shown
  /\ (Pending /\ proxy = "open" /\ js_events # "Closed" /\ shown) =>
       \A o \in Replies :
         (o.vals[12].t = "boolean" /\ ~o.vals[12].b) =>
           SentOnce(Reconcile(o).cmds, Visible(FALSE))

\* The field group a command belongs to.
GroupOf(cmd) == CHOOSE g \in Groups : CommandOf(g) = cmd.c

\* C19: with the command channel closed (and the view live), reconciliation
\* fails at the first field group k that has a command to send - the group
\* whose command would go out first were the channel open: it returns the
\* error, the turn returns Exit and no command is delivered; the groups after
\* k keep their cached attributes and a fullscreen change after k is not
\* forwarded; the groups before k hold what the reply made of them (a
\* fullscreen change before k is forwarded and noted); and the cached
\* attribute of group k holds the reply value although its command never went
\* out.  A reply with nothing to send is reconciled as with the channel open.
C19_StopAtFirstFailedSend ==
  (Pending /\ proxy = "closed" /\ js_events # "Closed") =>
    \A o \in Replies :
      LET fb == Reconcile(o)
          open == handle_feedback([Now EXCEPT !.ui_events = <<>>, !.proxy = "open"], o)
      IN IF open.cmds = <<>>
         THEN /\ fb.res = "Ok"
              /\ fb.win = open.win
              /\ fb.sent = open.sent
              /\ Turn(o).ret = "Poll"
         ELSE LET k == GroupOf(open.cmds[1])
              IN /\ fb.res = "Err"
                 /\ Turn(o).ret = "Exit"
                 /\ fb.cmds = <<>>
                 /\ \A g \in Groups :
                      Attribute(fb.win, g) =
                        IF g <= k THEN Attribute(open.win, g) ELSE Attribute(win, g)
                 /\ fb.sent = IF k > 3 THEN open.sent ELSE <<>>
                 /\ fb.ui_events = IF k > 3 THEN open.ui_events ELSE <<>>

\* A turn has just failed on a closed command channel at the title of a reply
\* that also asked for fullscreen, a cursor and visibility: the cached title
\* is the new one, nothing went out on either channel, and the later
\* attributes are as they were.
C19_Witness ==
  /\ last.op = "tick"
  /\ last.reply = Array(Odd(FullA))
  /\ proxy = "closed"
  /\ control_flow = "Exit"
  /\ last.cmds = <<>>
  /\ last.sent = <<>>
  /\ win.title = "a"
  /\ ~win.fullscreen /\ ~win.visible /\ win.cursor = "Default"
  /\ ui_events = <<>>

\* C20: left alone, the window comes to rest: eventually the collector is
\* empty and the loop polls, for good; once the collector is empty every turn
\* returns Poll without calling the script; and if a round trip leaves
\* anything in the collector, it is the one notification of the fullscreen
\* change that round trip made, and one more round trip with the same reply
\* empties the collector.
C20_Quiescence ==
  /\ <>[](ui_events = <<>> /\ control_flow = "Poll")
  /\ [][ui_events = <<>> =>
          (ui_events' = <<>> /\ last'.reply = NoCall /\ control_flow' = "Poll")]_vars
  /\ []((last.op = "tick" /\ last.reply = script /\ ui_events # <<>>) =>
          /\ ui_events = <<"Fullscreen">>
          /\ last.sent = <<Fullscreen(win.fullscreen)>>
          /\ Turn(script).called
          /\ Turn(script).ret = "Poll"
          /\ Turn(script).st.ui_events = <<>>)

\* The window has come to rest under a script that keeps asking for
\* fullscreen: the flag is set and a turn has found the collector empty.
C20_Witness ==
  /\ script = Array(FullA)
  /\ last.op = "tick"
  /\ last.reply = NoCall
  /\ ui_events = <<>>
  /\ win.fullscreen
  /\ win.title = "a"
  /\ control_flow = "Poll"

====
